---- MODULE Spec2Model ----
(***************************************************************************)
(* openai-python-cache: a SQLite-backed response cache                     *)
(* (provider.Sqlite3CacheProvider) in front of a remote chat-completion    *)
(* call with retry on APIError (api.CachedChatCompletion.create).          *)
(*                                                                         *)
(* Threads share one provider (one connection, one lock).  Every `with     *)
(* self.lock:` block is two steps, Acquire and the body with the release;  *)
(* a remote call is in flight between the step that issues it and the      *)
(* step that delivers its outcome.  The clock is read only as              *)
(* time.time() - start, so each create() carries `elapsed`, the time since *)
(* its line 74; the remote call takes any time and time.sleep(1) one unit. *)
(*                                                                         *)
(* Spec is the program with one thread and every input, FairSpec the same  *)
(* with the thread kept running, SpecConc the program with two threads.    *)
(***************************************************************************)
EXTENDS Integers, Sequences, FiniteSets, TLC

(* ------------------------------ bounds -------------------------------- *)
\* the largest timeout= a caller passes
MaxTimeout == 2
\* how long one create() is followed: the largest time since its start
MaxElapsed == 3
\* remote attempts the model follows of a create() without a timeout
MaxAttempts == 3
\* distinct completions the remote API can answer with
MaxResponseId == 2

\* time.sleep(1)
SleepSeconds == 1

Threads == {"t1", "t2"}

(* ------------------------------ JSON ---------------------------------- *)
\* A JSON value is a number [num |-> n] or an object [items |-> <<[k, v], ...>>],
\* a dict in insertion order.
Num(n) == [num |-> n]
Obj(items) == [items |-> items]
IsNum(v) == "num" \in DOMAIN v

\* Python's None / a present value, for Optional[...]
None == <<>>
Some(x) == <<x>>

\* the keys the payloads use, in code-point order (the order sort_keys sorts by)
KeyOrder == <<"id", "metadata", "model", "temperature">>
KeyRank(k) == CHOOSE i \in 1..Len(KeyOrder) : KeyOrder[i] = k

DigitStr == <<"0", "1", "2", "3", "4", "5", "6", "7", "8", "9">>
DigitVal(tok) == (CHOOSE i \in 1..Len(DigitStr) : DigitStr[i] = tok) - 1

RECURSIVE InsertSorted(_, _)
InsertSorted(item, sorted) ==
    IF sorted = <<>> THEN <<item>>
    ELSE IF KeyRank(item.k) < KeyRank(Head(sorted).k) THEN <<item>> \o sorted
    ELSE <<Head(sorted)>> \o InsertSorted(item, Tail(sorted))

\* sort_keys=False where hash_params asks for sort_keys=True
SortItemsUnsorted(items) == items

RECURSIVE SortItems(_)
SortItems(items) ==
    IF items = <<>> THEN <<>> ELSE InsertSorted(Head(items), SortItems(Tail(items)))

\* json.dumps(v, sort_keys=sort_keys): the text, as a sequence of tokens with
\* the default separators ", " and ": "
RECURSIVE json_dumps(_, _)
RECURSIVE DumpItems(_, _, _)
DumpItems(items, sort_keys, first) ==
    IF items = <<>> THEN <<>>
    ELSE (IF first THEN <<>> ELSE <<",">>)
         \o <<Head(items).k, ":">> \o json_dumps(Head(items).v, sort_keys)
         \o DumpItems(Tail(items), sort_keys, FALSE)
json_dumps(v, sort_keys) ==
    IF IsNum(v) THEN <<DigitStr[v.num + 1]>>
    ELSE <<"{">>
         \o DumpItems(IF sort_keys THEN SortItems(v.items) ELSE v.items, sort_keys, TRUE)
         \o <<"}">>

\* json.loads(text) of a text json.dumps wrote: [v |-> value, i |-> next token]
RECURSIVE ParseValue(_, _)
RECURSIVE ParseItems(_, _, _)
ParseItems(toks, i, acc) ==
    IF toks[i] = "}" THEN [v |-> Obj(acc), i |-> i + 1]
    ELSE IF toks[i] = "," THEN ParseItems(toks, i + 1, acc)
    ELSE LET r == ParseValue(toks, i + 2)
         IN  ParseItems(toks, r.i, Append(acc, [k |-> toks[i], v |-> r.v]))
ParseValue(toks, i) ==
    IF toks[i] = "{" THEN ParseItems(toks, i + 1, <<>>)
    ELSE [v |-> Num(DigitVal(toks[i])), i |-> i + 1]
json_loads(text) == ParseValue(text, 1).v

(* --------------------------- remote objects ---------------------------- *)
\* A ChatCompletion the API answers with; id 0 is "no response yet".
ChatCompletion(n) == [id |-> n]
NoResponse == ChatCompletion(0)
Responses == {ChatCompletion(n) : n \in 1..MaxResponseId}

\* response.model_dump(): the object's fields as a dict
model_dump(response) == Obj(<<[k |-> "id", v |-> Num(response.id)]>>)

\* ChatCompletionType.model_validate(d): the object, when d has its fields
Validates(d) ==
    /\ ~IsNum(d)
    /\ \E i \in 1..Len(d.items) : d.items[i].k = "id" /\ IsNum(d.items[i].v)
model_validate(d) ==
    LET i == CHOOSE j \in 1..Len(d.items) : d.items[j].k = "id"
    IN  ChatCompletion(d.items[i].v.num)

\* what client.chat.completions.create can raise: APIError subclasses for a
\* temporary condition and for a request that cannot succeed, and an
\* exception that is no APIError
TransientErrors == {"InternalServerError"}
FatalErrors == {"AuthenticationError"}
OtherErrors == {"TypeError"}
RemoteErrors == TransientErrors \cup FatalErrors \cup OtherErrors
\* `except APIError`
IsAPIError(err) == err \in TransientErrors \cup FatalErrors

(* ------------------------------ payloads ------------------------------- *)
\* **kwargs of create(): two copies of one request that list the keys in a
\* different order, and a request that differs in a value
Payloads ==
    { Obj(<<[k |-> "model", v |-> Num(1)], [k |-> "temperature", v |-> Num(0)]>>),
      Obj(<<[k |-> "temperature", v |-> Num(0)], [k |-> "model", v |-> Num(1)]>>),
      Obj(<<[k |-> "model", v |-> Num(2)], [k |-> "temperature", v |-> Num(0)]>>) }

\* hashlib.md5(b).hexdigest(), taken to be free of collisions
md5_hexdigest(b) == [md5 |-> b]

hash_params(params) == md5_hexdigest(json_dumps(params, TRUE))

Timeouts == {None} \cup {Some(d) : d \in 0..MaxTimeout}

(* ------------------------------- state --------------------------------- *)
VARIABLES
    rows,     \* the cache table: a set of rows [key, request_params, response]
    closed,   \* self.conn has been closed
    lock,     \* the threads holding self.lock
    frame,    \* per thread: the operation it runs, where it is, and its locals
    lastPut   \* history: key -> the response of the last insert since the last clear

vars == <<rows, closed, lock, frame, lastPut>>

\* the program positions that wait for self.lock, and the position inside
\* the `with self.lock:` block each leads to
WaitPcs == {"init_wait", "get_wait", "insert_wait", "clear_wait", "close_wait"}
ExecPc(pc) ==
    CASE pc = "init_wait" -> "init_exec"
      [] pc = "get_wait" -> "get_exec"
      [] pc = "insert_wait" -> "insert_exec"
      [] pc = "clear_wait" -> "clear_exec"
      [] pc = "close_wait" -> "close_exec"
ExecPcs == {ExecPc(pc) : pc \in WaitPcs}

IdleFrame ==
    [ op |-> "idle",              \* create, get, insert, clear, close, init
      pc |-> "idle",
      cache_provider |-> FALSE,   \* create(cache_provider=...) is not None
      timeout |-> None,
      kwargs |-> Obj(<<>>),       \* create's **kwargs; insert's request
      elapsed |-> 0,              \* time.time() - start
      cache_key |-> md5_hexdigest(<<>>),
      cached_response |-> None,   \* what get returned
      response |-> NoResponse,    \* what the remote call returned
      dump |-> Obj(<<>>),         \* insert's response argument
      e |-> "",                   \* the exception last raised in this thread
      attempts |-> 0,             \* remote calls issued by this create()
      sleeps |-> 0,               \* time.sleep(1) calls of this create()
      puts |-> 0,                 \* rows this operation has written
      replaced |-> None,          \* history: the response text its insert replaced
      ret |-> NoResponse ]        \* create's return value

NoPuts == [k \in {} |-> Obj(<<>>)]
Recorded(puts, key, response) ==
    [k \in DOMAIN puts \cup {key} |-> IF k = key THEN response ELSE puts[k]]

Init ==
    /\ rows = {}
    /\ closed = FALSE
    /\ lock = {}
    /\ frame = [t \in Threads |-> IdleFrame]
    /\ lastPut = NoPuts

(* --------------------------- the SQL statements ------------------------ *)
\* SELECT request_params for SELECT response
SelectRequestParams(table, key) ==
    IF \E r \in table : r.key = key
    THEN Some((CHOOSE r \in table : r.key = key).request_params)
    ELSE None

\* SELECT response FROM cache WHERE key = ?  /  cursor.fetchone()
SelectResponse(table, key) ==
    IF \E r \in table : r.key = key
    THEN Some((CHOOSE r \in table : r.key = key).response)
    ELSE None

\* INSERT OR IGNORE: the row of an existing key is kept
InsertOrIgnore(table, key, request_params, response) ==
    IF \E r \in table : r.key = key THEN table
    ELSE table \cup {[key |-> key, request_params |-> request_params,
                      response |-> response]}

\* INSERT into a table without the PRIMARY KEY: the old row stays beside the new
InsertBeside(table, key, request_params, response) ==
    table \cup {[key |-> key, request_params |-> request_params, response |-> response]}

\* INSERT OR REPLACE INTO cache (key, request_params, response) VALUES (?, ?, ?)
InsertOrReplace(table, key, request_params, response) ==
    {r \in table : r.key # key}
    \cup {[key |-> key, request_params |-> request_params, response |-> response]}

\* DELETE FROM cache
DeleteAll(table) == {}

\* `if cached_response:`
Truthy(opt) == opt # None /\ opt[1] # <<>>

\* sqlite3 raises ProgrammingError for a statement on a closed connection
ClosedError == "ProgrammingError"
ValidationError == "ValidationError"

Raise(f, err) == [f EXCEPT !.pc = "raised", !.e = err]

\* DeadlinePassed with >= for >
DeadlinePassedAtDeadline(f) == f.timeout # None /\ f.elapsed >= f.timeout[1]

\* `timeout is not None and time.time() > start + timeout`
DeadlinePassed(f) == f.timeout # None /\ f.elapsed > f.timeout[1]

(* ------------------------------ operations ----------------------------- *)
\* create(cache_provider, timeout, **kwargs), lines 74-84: read the clock, then
\* either call the API directly or hash the parameters and go for the lookup
Create(t, cp, to, kw) ==
    /\ frame[t].pc = "idle"
    /\ frame' = [frame EXCEPT ![t] =
         IF cp
         THEN [@ EXCEPT !.op = "create", !.cache_provider = TRUE, !.timeout = to,
                        !.kwargs = kw, !.elapsed = 0,
                        !.cache_key = hash_params(kw), !.pc = "get_wait"]
         ELSE [@ EXCEPT !.op = "create", !.cache_provider = FALSE, !.timeout = to,
                        !.kwargs = kw, !.elapsed = 0,
                        !.pc = "calling", !.attempts = 1]]
    /\ UNCHANGED <<rows, closed, lock, lastPut>>

\* cache.get(key)
Get(t, key) ==
    /\ frame[t].pc = "idle"
    /\ frame' = [frame EXCEPT ![t] =
         [@ EXCEPT !.op = "get", !.cache_key = key, !.pc = "get_wait"]]
    /\ UNCHANGED <<rows, closed, lock, lastPut>>

\* cache.insert(key, request, response)
Insert(t, request, response) ==
    /\ frame[t].pc = "idle"
    /\ frame' = [frame EXCEPT ![t] =
         [@ EXCEPT !.op = "insert", !.cache_key = hash_params(request),
                   !.kwargs = request, !.dump = response, !.pc = "insert_wait"]]
    /\ UNCHANGED <<rows, closed, lock, lastPut>>

\* cache.clear()
Clear(t) ==
    /\ frame[t].pc = "idle"
    /\ frame' = [frame EXCEPT ![t] = [@ EXCEPT !.op = "clear", !.pc = "clear_wait"]]
    /\ UNCHANGED <<rows, closed, lock, lastPut>>

\* cache.close()
Close(t) ==
    /\ frame[t].pc = "idle"
    /\ frame' = [frame EXCEPT ![t] = [@ EXCEPT !.op = "close", !.pc = "close_wait"]]
    /\ UNCHANGED <<rows, closed, lock, lastPut>>

\* cache._create_table_if_not_exists()
CreateTable(t) ==
    /\ frame[t].pc = "idle"
    /\ frame' = [frame EXCEPT ![t] = [@ EXCEPT !.op = "init", !.pc = "init_wait"]]
    /\ UNCHANGED <<rows, closed, lock, lastPut>>

\* an acquire that does not wait
LockNeverHeld(holders) == TRUE

\* threading.Lock.acquire, the entry of every `with self.lock:`
LockFree(holders) == holders = {}

Acquire(t) ==
    /\ frame[t].pc \in WaitPcs
    /\ LockFree(lock)
    /\ lock' = lock \cup {t}
    /\ frame' = [frame EXCEPT ![t] = [@ EXCEPT !.pc = ExecPc(frame[t].pc)]]
    /\ UNCHANGED <<rows, closed, lastPut>>

\* AfterLookup with the hit branch lost: every lookup is taken for a miss
AfterLookupAlwaysMiss(f, found) ==
    [f EXCEPT !.cached_response = found, !.pc = "calling", !.attempts = 1]

\* AfterLookup with a text that does not validate taken for a miss
AfterLookupDecodeFaultAsMiss(f, found) ==
    IF Truthy(found) /\ Validates(json_loads(found[1]))
    THEN [f EXCEPT !.cached_response = found, !.pc = "returned",
                   !.ret = model_validate(json_loads(found[1]))]
    ELSE [f EXCEPT !.cached_response = found, !.pc = "calling", !.attempts = 1]

\* the frame after get() returned `found` to create(): lines 85-88 on a hit,
\* the first remote call of the retry loop (line 94) on a miss
AfterLookup(f, found) ==
    IF Truthy(found)
    THEN LET cached_dict == json_loads(found[1])
         IN  IF Validates(cached_dict)
             THEN [f EXCEPT !.cached_response = found, !.pc = "returned",
                            !.ret = model_validate(cached_dict)]
             ELSE Raise([f EXCEPT !.cached_response = found], ValidationError)
    ELSE [f EXCEPT !.cached_response = found, !.pc = "calling", !.attempts = 1]

\* GetExec with the connection's exception swallowed: get returns None
GetExecSwallowingFault(t) ==
    /\ frame[t].pc = "get_exec"
    /\ lock' = lock \ {t}
    /\ frame' = [frame EXCEPT ![t] =
         LET found == IF closed THEN None ELSE SelectResponse(rows, @.cache_key)
         IN  IF @.op = "create" THEN AfterLookup(@, found)
             ELSE [@ EXCEPT !.cached_response = found, !.pc = "returned"]]
    /\ UNCHANGED <<rows, closed, lastPut>>

\* GetExec with the lock kept over the remote call that follows a miss
GetExecKeepingLock(t) ==
    /\ frame[t].pc = "get_exec"
    /\ lock' = IF ~closed /\ frame[t].op = "create"
                  /\ ~Truthy(SelectResponse(rows, frame[t].cache_key))
               THEN lock ELSE lock \ {t}
    /\ frame' = [frame EXCEPT ![t] =
         IF closed THEN Raise(@, ClosedError)
         ELSE LET found == SelectResponse(rows, @.cache_key)
              IN  IF @.op = "create" THEN AfterLookup(@, found)
                  ELSE [@ EXCEPT !.cached_response = found, !.pc = "returned"]]
    /\ UNCHANGED <<rows, closed, lastPut>>

\* GetExec that writes the row it found back to the table on a hit
GetExecRefreshingHit(t) ==
    /\ frame[t].pc = "get_exec"
    /\ lock' = lock \ {t}
    /\ frame' = [frame EXCEPT ![t] =
         IF closed THEN Raise(@, ClosedError)
         ELSE LET found == SelectResponse(rows, @.cache_key)
              IN  IF @.op = "create"
                  THEN [AfterLookup(@, found) EXCEPT
                           !.puts = IF Truthy(found) THEN @ + 1 ELSE @]
                  ELSE [@ EXCEPT !.cached_response = found, !.pc = "returned"]]
    /\ rows' = IF ~closed /\ frame[t].op = "create"
                  /\ Truthy(SelectResponse(rows, frame[t].cache_key))
               THEN InsertOrReplace(rows, frame[t].cache_key,
                                    json_dumps(frame[t].kwargs, TRUE),
                                    SelectResponse(rows, frame[t].cache_key)[1])
               ELSE rows
    /\ UNCHANGED <<closed, lastPut>>

\* get's `with self.lock:` body, the release, and what its caller does next
GetExec(t) ==
    /\ frame[t].pc = "get_exec"
    /\ lock' = lock \ {t}
    /\ frame' = [frame EXCEPT ![t] =
         IF closed THEN Raise(@, ClosedError)
         ELSE LET found == SelectResponse(rows, @.cache_key)
              IN  IF @.op = "create" THEN AfterLookup(@, found)
                  ELSE [@ EXCEPT !.cached_response = found, !.pc = "returned"]]
    /\ UNCHANGED <<rows, closed, lastPut>>

\* the frame dt later; a create() without a timeout never reads the clock
\* (line 104), and its frame keeps no time
Later(f, dt) == IF f.timeout = None THEN f ELSE [f EXCEPT !.elapsed = @ + dt]

\* RemoteReturns with the deadline checked on success too
RemoteReturnsCheckingDeadline(t, r, dt) ==
    /\ frame[t].pc = "calling"
    /\ frame[t].elapsed + dt <= MaxElapsed
    /\ frame' = [frame EXCEPT ![t] =
         IF @.cache_provider
         THEN IF DeadlinePassed(Later(@, dt))
              THEN Raise(Later(@, dt), "TimeoutError")
              ELSE [Later(@, dt) EXCEPT !.response = r, !.dump = model_dump(r),
                                        !.pc = "insert_wait"]
         ELSE [Later(@, dt) EXCEPT !.response = r, !.ret = r, !.pc = "returned"]]
    /\ UNCHANGED <<rows, closed, lock, lastPut>>

\* the remote call returns a completion after dt: without a provider it is
\* returned (line 78), with one it goes to insert (line 97)
RemoteReturns(t, r, dt) ==
    /\ frame[t].pc = "calling"
    /\ frame[t].elapsed + dt <= MaxElapsed
    /\ frame' = [frame EXCEPT ![t] =
         IF @.cache_provider
         THEN [Later(@, dt) EXCEPT !.response = r, !.dump = model_dump(r),
                                   !.pc = "insert_wait"]
         ELSE [Later(@, dt) EXCEPT !.response = r, !.ret = r, !.pc = "returned"]]
    /\ UNCHANGED <<rows, closed, lock, lastPut>>

\* AfterRemoteError with a retry limit: the second APIError is raised
AfterRemoteErrorLimited(f, err) ==
    IF IsAPIError(err) /\ ~DeadlinePassed(f) /\ f.attempts < 2
    THEN [f EXCEPT !.e = err, !.pc = "sleep"]
    ELSE Raise(f, err)

\* the frame after the remote call of the retry loop raised err (lines
\* 102-110): an APIError before the deadline leads to print and time.sleep(1)
AfterRemoteError(f, err) ==
    IF IsAPIError(err)
    THEN IF DeadlinePassed(f)
         THEN Raise(f, err)
         ELSE [f EXCEPT !.e = err, !.pc = "sleep"]
    ELSE Raise(f, err)

\* RemoteRaises with the retry loop around the call without a provider too
RemoteRaisesRetrying(t, err, dt) ==
    /\ frame[t].pc = "calling"
    /\ frame[t].elapsed + dt <= MaxElapsed
    /\ frame' = [frame EXCEPT ![t] = AfterRemoteError(Later(@, dt), err)]
    /\ UNCHANGED <<rows, closed, lock, lastPut>>

\* RemoteRaises that caches the failure: a row with the text {}
RemoteRaisesCachingFailure(t, err, dt) ==
    /\ frame[t].pc = "calling"
    /\ frame[t].elapsed + dt <= MaxElapsed
    /\ frame' = [frame EXCEPT ![t] =
         IF @.cache_provider
         THEN AfterRemoteError(Later(@, dt), err)
         ELSE Raise(Later(@, dt), err)]
    /\ rows' = IF frame[t].cache_provider /\ frame'[t].pc = "raised" /\ ~closed
               THEN InsertOrReplace(rows, frame[t].cache_key,
                                    json_dumps(frame[t].kwargs, TRUE),
                                    json_dumps(Obj(<<>>), FALSE))
               ELSE rows
    /\ UNCHANGED <<closed, lock, lastPut>>

\* the remote call raises err after dt
RemoteRaises(t, err, dt) ==
    /\ frame[t].pc = "calling"
    /\ frame[t].elapsed + dt <= MaxElapsed
    /\ frame' = [frame EXCEPT ![t] =
         IF @.cache_provider
         THEN AfterRemoteError(Later(@, dt), err)
         ELSE Raise(Later(@, dt), err)]
    /\ UNCHANGED <<rows, closed, lock, lastPut>>

\* time.sleep(1) (line 110), and the loop calls the API again (line 94)
Sleep(t) ==
    /\ frame[t].pc = "sleep"
    /\ frame[t].timeout = None => frame[t].attempts < MaxAttempts
    /\ frame[t].elapsed + SleepSeconds <= MaxElapsed
    /\ frame' = [frame EXCEPT ![t] =
         [Later(@, SleepSeconds) EXCEPT !.pc = "calling", !.attempts = @ + 1,
                                        !.sleeps = @ + 1]]
    /\ UNCHANGED <<rows, closed, lock, lastPut>>

\* InsertRow with the request stored as the response
InsertRowEchoingRequest(table, f) ==
    InsertOrReplace(table, f.cache_key, json_dumps(f.kwargs, TRUE),
                    json_dumps(f.kwargs, FALSE))

\* the arguments insert binds to the statement
InsertRow(table, f) ==
    InsertOrReplace(table, f.cache_key, json_dumps(f.kwargs, TRUE),
                    json_dumps(f.dump, FALSE))

\* insert's `with self.lock:` body and the release; create then returns the
\* live response (line 100)
InsertExec(t) ==
    /\ frame[t].pc = "insert_exec"
    /\ lock' = lock \ {t}
    /\ rows' = IF closed THEN rows ELSE InsertRow(rows, frame[t])
    /\ lastPut' = IF closed THEN lastPut
                  ELSE Recorded(lastPut, frame[t].cache_key, frame[t].dump)
    /\ frame' = [frame EXCEPT ![t] =
         IF closed THEN Raise(@, ClosedError)
         ELSE [@ EXCEPT !.pc = "returned", !.puts = @ + 1, !.ret = frame[t].response,
                        !.replaced = SelectResponse(rows, frame[t].cache_key)]]
    /\ UNCHANGED closed

\* ClearExec on a connection that still takes statements after close()
ClearExecAfterClose(t) ==
    /\ frame[t].pc = "clear_exec"
    /\ lock' = lock \ {t}
    /\ rows' = DeleteAll(rows)
    /\ lastPut' = NoPuts
    /\ frame' = [frame EXCEPT ![t] = [@ EXCEPT !.pc = "returned"]]
    /\ UNCHANGED closed

\* ClearExec without the release when the statement raises
ClearExecLeakingLock(t) ==
    /\ frame[t].pc = "clear_exec"
    /\ lock' = IF closed THEN lock ELSE lock \ {t}
    /\ rows' = IF closed THEN rows ELSE DeleteAll(rows)
    /\ lastPut' = IF closed THEN lastPut ELSE NoPuts
    /\ frame' = [frame EXCEPT ![t] =
         IF closed THEN Raise(@, ClosedError) ELSE [@ EXCEPT !.pc = "returned"]]
    /\ UNCHANGED closed

\* clear's `with self.lock:` body and the release
ClearExec(t) ==
    /\ frame[t].pc = "clear_exec"
    /\ lock' = lock \ {t}
    /\ rows' = IF closed THEN rows ELSE DeleteAll(rows)
    /\ lastPut' = IF closed THEN lastPut ELSE NoPuts
    /\ frame' = [frame EXCEPT ![t] =
         IF closed THEN Raise(@, ClosedError) ELSE [@ EXCEPT !.pc = "returned"]]
    /\ UNCHANGED closed

CloseExec(t) ==
    /\ frame[t].pc = "close_exec"
    /\ lock' = lock \ {t}
    /\ closed' = TRUE
    /\ frame' = [frame EXCEPT ![t] = [@ EXCEPT !.pc = "returned"]]
    /\ UNCHANGED <<rows, lastPut>>

\* CREATE TABLE IF NOT EXISTS cache(...): the table exists since __init__
CreateTableExec(t) ==
    /\ frame[t].pc = "init_exec"
    /\ lock' = lock \ {t}
    /\ frame' = [frame EXCEPT ![t] =
         IF closed THEN Raise(@, ClosedError) ELSE [@ EXCEPT !.pc = "returned"]]
    /\ UNCHANGED <<rows, closed, lastPut>>

\* the operation is over; the thread is free for its next one
Return(t) ==
    /\ frame[t].pc \in {"returned", "raised"}
    /\ frame' = [frame EXCEPT ![t] = IdleFrame]
    /\ UNCHANGED <<rows, closed, lock, lastPut>>

\* One step of the program, with its threads and the inputs their calls draw:
\* the threads T, the timeouts TOs, the payloads KWs, the completions RS the
\* API answers with, the response dicts DS given to insert, the exceptions
\* ERRS the API raises, and the times DTs a remote call takes.
Step(T, TOs, KWs, RS, DS, ERRS, DTs) ==
    \/ \E t \in T, cp \in BOOLEAN, to \in TOs, kw \in KWs : Create(t, cp, to, kw)
    \/ \E t \in T, kw \in KWs : Get(t, hash_params(kw))
    \/ \E t \in T, kw \in KWs, d \in DS : Insert(t, kw, d)
    \/ \E t \in T : Clear(t)
    \/ \E t \in T : Close(t)
    \/ \E t \in T : CreateTable(t)
    \/ \E t \in T : Acquire(t)
    \/ \E t \in T : GetExec(t)
    \/ \E t \in T, r \in RS, dt \in DTs : RemoteReturns(t, r, dt)
    \/ \E t \in T, err \in ERRS, dt \in DTs : RemoteRaises(t, err, dt)
    \/ \E t \in T : Sleep(t)
    \/ \E t \in T : InsertExec(t)
    \/ \E t \in T : ClearExec(t)
    \/ \E t \in T : CloseExec(t)
    \/ \E t \in T : CreateTableExec(t)
    \/ \E t \in T : Return(t)

\* One thread uses the provider, with every input.
\* insert is given the dump of a completion, or a dict that is none
Dicts == {model_dump(r) : r \in Responses} \cup {Obj(<<>>)}
Next == Step({"t1"}, Timeouts, Payloads, Responses, Dicts, RemoteErrors, 0..MaxElapsed)
Spec == Init /\ [][Next]_vars

\* Two threads share the provider; their calls draw from the inputs that
\* decide how they interleave: no timeout or one that has passed at the first
\* failure, two fingerprints, two completions.
ConcTimeouts == {None, Some(0)}
ConcPayloads ==
    { Obj(<<[k |-> "model", v |-> Num(1)], [k |-> "temperature", v |-> Num(0)]>>),
      Obj(<<[k |-> "model", v |-> Num(2)], [k |-> "temperature", v |-> Num(0)]>>) }
ConcResponses == {ChatCompletion(1), ChatCompletion(2)}
ConcErrors == {"InternalServerError", "TypeError"}
NextConc ==
    Step(Threads, ConcTimeouts, ConcPayloads, ConcResponses,
         {model_dump(r) : r \in ConcResponses}, ConcErrors, {0})
SpecConc == Init /\ [][NextConc]_vars

\* The one-thread program with its thread kept running: a remote call comes
\* back and time.sleep returns.
FairSpec == Spec /\ WF_vars(Next)

\* One thread uses the provider with nested payloads: a request, two copies of
\* it with the keys in another order (at both depths, at the inner depth
\* only), and a request that differs in an inner value; insert is given the
\* dump of a completion or a nested dict with its keys out of order.
JsonPayloads ==
    { Obj(<<[k |-> "model", v |-> Num(1)],
            [k |-> "metadata", v |-> Obj(<<[k |-> "temperature", v |-> Num(0)],
                                           [k |-> "id", v |-> Num(1)]>>)]>>),
      Obj(<<[k |-> "metadata", v |-> Obj(<<[k |-> "id", v |-> Num(1)],
                                           [k |-> "temperature", v |-> Num(0)]>>)],
            [k |-> "model", v |-> Num(1)]>>),
      Obj(<<[k |-> "model", v |-> Num(1)],
            [k |-> "metadata", v |-> Obj(<<[k |-> "id", v |-> Num(1)],
                                           [k |-> "temperature", v |-> Num(0)]>>)]>>),
      Obj(<<[k |-> "model", v |-> Num(1)],
            [k |-> "metadata", v |-> Obj(<<[k |-> "temperature", v |-> Num(0)],
                                           [k |-> "id", v |-> Num(2)]>>)]>>) }
JsonDicts ==
    { model_dump(ChatCompletion(1)),
      Obj(<<[k |-> "model", v |-> Num(2)],
            [k |-> "metadata", v |-> Obj(<<[k |-> "temperature", v |-> Num(0)],
                                           [k |-> "id", v |-> Num(2)]>>)],
            [k |-> "id", v |-> Num(2)]>>) }
NextJson ==
    Step({"t1"}, {None}, JsonPayloads, {ChatCompletion(1)}, JsonDicts,
         TransientErrors, {0})
SpecJson == Init /\ [][NextJson]_vars

(* ------------------------------- claims -------------------------------- *)
\* thread t is in a create() that was given a provider
Cached(t) == frame[t].op = "create" /\ frame[t].cache_provider
\* thread t's step is the body of X's `with self.lock:` on an open connection
Executes(t, pc) == frame[t].pc = pc /\ frame'[t].pc # pc /\ ~closed
\* the row insert writes for thread t's create(): the fingerprint of its
\* kwargs, their canonical text, and the text of its live response's dump
PutRow(t) ==
    [key |-> hash_params(frame[t].kwargs),
     request_params |-> json_dumps(frame[t].kwargs, TRUE),
     response |-> json_dumps(model_dump(frame[t].response), FALSE)]
RowsOf(table, key) == {r \in table : r.key = key}

\* C1: when the table holds a row for the fingerprint of create()'s kwargs as
\* its lookup runs, the call issues no remote call at all: the lookup hands it
\* that row's response text and the call ends there, returning the object
\* decoded from the text (or raising the decode error when the text is none).
C1_HitShortCircuits ==
    [][\A t \in Threads :
          (Cached(t) /\ Executes(t, "get_exec")
             /\ RowsOf(rows, hash_params(frame[t].kwargs)) # {})
          => LET row == CHOOSE r \in RowsOf(rows, hash_params(frame[t].kwargs)) : TRUE
                 f == frame'[t]
             IN  /\ f.cached_response = Some(row.response)
                 /\ f.attempts = 0 /\ f.puts = 0
                 /\ \/ f.pc = "returned"
                       /\ f.ret = model_validate(json_loads(row.response))
                    \/ f.pc = "raised" /\ f.e = ValidationError
                       /\ ~Validates(json_loads(row.response))]_vars

C1_Witness ==
    \E t \in Threads :
        /\ Cached(t) /\ frame[t].pc = "returned"
        /\ frame[t].cached_response # None
        /\ frame[t].attempts = 0
        /\ frame[t].ret \in Responses

\* C2: in a create() with a provider, a first remote call that fails with a
\* fatal failure ends the call with that failure: one attempt, no sleep.
C2_FatalShortCircuits ==
    \A t \in Threads :
        (Cached(t) /\ frame[t].attempts = 1 /\ frame[t].e \in FatalErrors)
        => frame[t].pc = "raised" /\ frame[t].sleeps = 0

\* C3 as stated: a create() with a provider and timeout 2 whose remote calls
\* all fail with a transient failure ends with that failure after at least 2
\* attempts.
C3_AtLeastTwoAttempts ==
    \A t \in Threads :
        (Cached(t) /\ frame[t].timeout = Some(2) /\ frame[t].pc = "raised"
           /\ frame[t].e \in TransientErrors)
        => frame[t].attempts >= 2

\* thread t is in the retry loop of a create() with a timeout
InTimedLoop(t) ==
    Cached(t) /\ frame[t].timeout # None /\ frame[t].pc \in {"calling", "sleep"}

\* C3, amended: a create() with a provider and timeout d leaves its retry loop:
\* when its remote calls keep failing with an APIError it ends with the last
\* of them, raised only once more than d has passed since the call began,
\* after at most d + 2 attempts; it ends after one attempt only if that attempt
\* alone outlasted d, and after at least two otherwise.
C3_DeadlineEnforced ==
    /\ [](\A t \in Threads :
            (Cached(t) /\ frame[t].timeout # None /\ frame[t].pc = "raised"
               /\ IsAPIError(frame[t].e))
            => /\ frame[t].elapsed > frame[t].timeout[1]
               /\ frame[t].attempts <= frame[t].timeout[1] + 2
               /\ frame[t].attempts = frame[t].sleeps + 1
               /\ (frame[t].attempts < 2 => frame[t].elapsed > frame[t].timeout[1]))
    /\ [](\A t \in Threads :
            InTimedLoop(t) => frame[t].attempts <= frame[t].timeout[1] + 2)
    /\ \A t \in Threads : InTimedLoop(t) ~> ~InTimedLoop(t)

C3_Witness ==
    \E t \in Threads :
        /\ Cached(t) /\ frame[t].timeout = Some(2) /\ frame[t].pc = "raised"
        /\ frame[t].e \in TransientErrors
        /\ frame[t].attempts = 4

\* C4: a create() with a provider and no timeout never ends with an APIError:
\* each one sends it to sleep, the sleep is one unit and leads to one more
\* remote call, whatever the number of calls before; the call returns the
\* response of the one attempt that succeeded, which is its last.
C4_RetryForever ==
    /\ [](\A t \in Threads :
            (Cached(t) /\ frame[t].timeout = None)
            => /\ frame[t].pc = "raised" => ~IsAPIError(frame[t].e)
               /\ (frame[t].pc = "sleep" /\ frame[t].attempts < MaxAttempts)
                     => ENABLED Sleep(t)
               /\ (frame[t].pc = "returned" /\ frame[t].attempts > 0)
                     => /\ frame[t].ret = frame[t].response
                        /\ frame[t].ret \in Responses
                        /\ frame[t].attempts = frame[t].sleeps + 1)
    /\ [][\A t \in Threads :
            (Cached(t) /\ frame[t].timeout = None /\ frame[t].pc = "sleep"
               /\ frame'[t].pc # "sleep")
            => /\ frame'[t].pc = "calling"
               /\ frame'[t].attempts = frame[t].attempts + 1
               /\ frame'[t].sleeps = frame[t].sleeps + 1]_vars
    /\ [][\A t \in Threads :
            (Cached(t) /\ frame[t].timeout = None /\ frame[t].pc = "calling"
               /\ frame'[t].pc # "calling")
            => \/ frame'[t].pc = "sleep" /\ IsAPIError(frame'[t].e)
               \/ frame'[t].pc = "raised" /\ ~IsAPIError(frame'[t].e)
               \/ frame'[t].pc = "insert_wait" /\ frame'[t].response \in Responses]_vars

C4_Witness ==
    \E t \in Threads :
        /\ Cached(t) /\ frame[t].timeout = None /\ frame[t].pc = "returned"
        /\ frame[t].attempts = MaxAttempts
        /\ frame[t].sleeps = MaxAttempts - 1
        /\ frame[t].e \in TransientErrors

\* C5: a create() without a provider issues one remote call and ends with its
\* outcome, the completion returned or the exception raised, without a sleep;
\* it computes no key and takes no step on the table, the connection or the lock.
C5_NoStorePassthrough ==
    /\ [](\A t \in Threads :
            (frame[t].op = "create" /\ ~frame[t].cache_provider)
            => /\ frame[t].pc \in {"calling", "returned", "raised"}
               /\ frame[t].attempts = 1 /\ frame[t].sleeps = 0 /\ frame[t].puts = 0
               /\ frame[t].cache_key = IdleFrame.cache_key
               /\ frame[t].pc = "returned"
                     => frame[t].ret = frame[t].response /\ frame[t].ret \in Responses
               /\ frame[t].pc = "raised"
                     => frame[t].e \in RemoteErrors /\ frame[t].response = NoResponse)
    /\ [][\A t \in Threads :
            (frame[t].op = "create" /\ ~frame[t].cache_provider
               /\ frame'[t] # frame[t])
            => UNCHANGED <<rows, closed, lock, lastPut>>]_vars

C5_Witness ==
    \E t \in Threads :
        /\ frame[t].op = "create" /\ ~frame[t].cache_provider
        /\ frame[t].pc = "raised" /\ frame[t].e \in TransientErrors
        /\ frame[t].attempts = 1
        /\ rows # {}

\* C6: in a create() with a provider that missed, insert runs only after a
\* remote call returned a completion; on an open connection it leaves in the
\* table the row whose key is the fingerprint of the kwargs and whose response
\* is the text of that completion's dump, which decodes to the completion, and
\* the call then returns the completion.
C6_MissPersistsAndReturnsLive ==
    /\ [](\A t \in Threads :
            Cached(t)
            => /\ frame[t].pc \in {"insert_wait", "insert_exec"}
                    => /\ frame[t].response \in Responses /\ frame[t].puts = 0
                       /\ frame[t].attempts >= 1
               /\ (frame[t].pc = "returned" /\ frame[t].cached_response = None)
                    => /\ frame[t].puts = 1
                       /\ frame[t].ret = frame[t].response
                       /\ frame[t].ret \in Responses
               /\ frame[t].pc \in {"get_wait", "get_exec", "calling", "sleep"}
                    => frame[t].puts = 0)
    /\ [][\A t \in Threads :
            (Cached(t) /\ Executes(t, "insert_exec"))
            => /\ PutRow(t) \in rows'
               /\ model_validate(json_loads(PutRow(t).response)) = frame[t].response
               /\ frame'[t].pc = "returned"
               /\ frame'[t].ret = frame[t].response]_vars

C6_Witness ==
    \E t \in Threads :
        /\ Cached(t) /\ frame[t].pc = "returned" /\ frame[t].puts = 1
        /\ frame[t].attempts = 2
        /\ \E r \in rows : r.key = hash_params(frame[t].kwargs)
                           /\ json_loads(r.response) = model_dump(frame[t].ret)

\* C7: at most one thread is inside a `with self.lock:` block of the provider
\* (get, insert, clear, close, the table creation), and a thread is inside one
\* exactly while it holds the lock.
C7_StoreMutualExclusion ==
    /\ \A t, u \in Threads :
          (frame[t].pc \in ExecPcs /\ frame[u].pc \in ExecPcs) => t = u
    /\ \A t \in Threads : frame[t].pc \in ExecPcs <=> t \in lock

C7_Witness ==
    \E t, u \in Threads :
        /\ frame[t].pc = "insert_exec" /\ lock = {t}
        /\ frame[u].pc \in WaitPcs

\* threads t and u are both at the end of a create() for one fingerprint that
\* missed, called the API and inserted
BothPut(t, u) ==
    /\ t # u
    /\ \A x \in {t, u} :
          /\ Cached(x) /\ frame[x].pc = "returned"
          /\ frame[x].cached_response = None /\ frame[x].puts = 1
    /\ frame[t].cache_key = frame[u].cache_key

\* C8: two threads can both miss on one fingerprint, both call the API and both
\* insert; every insert leaves exactly one row for its key, the inserting
\* thread's, so after both the table holds one row for the fingerprint, with the
\* response of the insert that ran last.
C8_NoSingleFlight ==
    /\ [](\A t, u \in Threads :
            BothPut(t, u)
            => \E x \in {t, u} : RowsOf(rows, frame[t].cache_key) = {PutRow(x)})
    /\ [][\A t \in Threads :
            (Cached(t) /\ Executes(t, "insert_exec"))
            => RowsOf(rows', frame[t].cache_key) = {PutRow(t)}]_vars

C8_Witness ==
    \E t, u \in Threads :
        /\ BothPut(t, u)
        /\ frame[t].response # frame[u].response
        /\ frame[u].replaced = Some(PutRow(t).response)

\* C9: a lookup of a key returns the text of the response of the last insert
\* for that key since the last clear, also when an earlier insert for the key
\* had written another response; an insert on an open connection always
\* succeeds, whether or not the key has a row.
C9_UpsertOverwrites ==
    /\ [][\A t \in Threads :
            (Executes(t, "get_exec") /\ frame[t].cache_key \in DOMAIN lastPut)
            => frame'[t].cached_response
                 = Some(json_dumps(lastPut[frame[t].cache_key], FALSE))]_vars
    /\ [][\A t \in Threads :
            Executes(t, "insert_exec")
            => /\ frame'[t].pc = "returned"
               /\ lastPut'[frame[t].cache_key] = frame[t].dump]_vars

C9_Witness ==
    \E t, u \in Threads :
        /\ frame[t].op = "insert" /\ frame[t].pc = "returned"
        /\ frame[t].replaced # None
        /\ frame[t].replaced # Some(json_dumps(frame[t].dump, FALSE))
        /\ frame[u].op = "get" /\ frame[u].pc = "returned"
        /\ frame[u].cache_key = frame[t].cache_key
        /\ frame[u].cached_response = Some(json_dumps(frame[t].dump, FALSE))

\* C10: the table never holds two rows with one key.
C10_KeyUnique ==
    \A r1, r2 \in rows : r1.key = r2.key => r1 = r2

C10_Witness ==
    /\ Cardinality(rows) = 2
    /\ \E t \in Threads :
          /\ frame[t].pc = "returned" /\ frame[t].puts = 1
          /\ frame[t].replaced # None
          /\ frame[t].replaced # Some(json_dumps(frame[t].dump, FALSE))

\* the positions of get, insert and clear, before and inside their lock block
StoreOpPcs ==
    {"get_wait", "get_exec", "insert_wait", "insert_exec", "clear_wait", "clear_exec"}

\* C11: once the connection is closed, a get, insert or clear that runs its
\* statement ends by raising the closed-connection error: it returns neither a
\* value nor a miss, leaves the table as it was, gives the lock back, and a
\* thread that is kept running does get there.
C11_ClosedStoreFails ==
    /\ [][\A t \in Threads :
            (closed /\ frame[t].pc \in {"get_exec", "insert_exec", "clear_exec"}
               /\ frame'[t] # frame[t])
            => /\ frame'[t].pc = "raised" /\ frame'[t].e = ClosedError
               /\ frame'[t].cached_response = None
               /\ frame'[t].ret = NoResponse /\ frame'[t].puts = 0
               /\ t \notin lock'
               /\ UNCHANGED <<rows, closed, lastPut>>]_vars
    /\ [][closed => closed' /\ rows' = rows]_vars
    /\ \A t \in Threads :
          (closed /\ frame[t].pc \in StoreOpPcs) ~> (frame[t].pc = "raised")

C11_Witness ==
    \E t \in Threads :
        /\ closed /\ frame[t].op = "get" /\ frame[t].pc = "raised"
        /\ frame[t].e = ClosedError
        /\ RowsOf(rows, frame[t].cache_key) # {}

\* C12: when the text the lookup of a create() returns does not decode into a
\* completion, the call ends by raising the decode error: it issues no remote
\* call and no insert, and the row stays as it is.
C12_DecodeFaultIsNoMiss ==
    /\ [][\A t \in Threads :
            (Cached(t) /\ Executes(t, "get_exec")
               /\ \E r \in RowsOf(rows, frame[t].cache_key) :
                     ~Validates(json_loads(r.response)))
            => /\ frame'[t].pc = "raised" /\ frame'[t].e = ValidationError
               /\ frame'[t].attempts = 0 /\ frame'[t].puts = 0
               /\ UNCHANGED <<rows, lastPut>>]_vars
    /\ [](\A t \in Threads :
            (Cached(t) /\ frame[t].e = ValidationError)
            => /\ frame[t].pc = "raised"
               /\ frame[t].attempts = 0 /\ frame[t].puts = 0
               /\ frame[t].response = NoResponse)

C12_Witness ==
    \E t \in Threads :
        /\ Cached(t) /\ frame[t].pc = "raised" /\ frame[t].e = ValidationError
        /\ frame[t].cached_response = Some(json_dumps(Obj(<<>>), FALSE))
        /\ \E r \in rows : r.key = frame[t].cache_key
                           /\ r.response = frame[t].cached_response[1]

\* C13: when the lookup of a create() fails on the connection (it is closed),
\* the call ends by raising that error: it issues no remote call and no insert.
C13_LookupFaultIsNoMiss ==
    /\ [][\A t \in Threads :
            (Cached(t) /\ frame[t].pc = "get_exec" /\ closed
               /\ frame'[t] # frame[t])
            => /\ frame'[t].pc = "raised" /\ frame'[t].e = ClosedError
               /\ frame'[t].attempts = 0 /\ frame'[t].puts = 0
               /\ UNCHANGED <<rows, lastPut>>]_vars
    /\ [](\A t \in Threads :
            (Cached(t) /\ frame[t].pc \in {"calling", "sleep", "insert_wait", "insert_exec"})
            => frame[t].attempts >= 1 /\ frame[t].e # ClosedError)

C13_Witness ==
    \E t \in Threads :
        /\ Cached(t) /\ frame[t].pc = "raised" /\ frame[t].e = ClosedError
        /\ frame[t].attempts = 0
        /\ RowsOf(rows, frame[t].cache_key) = {}

\* a == b as Python compares dicts: the same keys with the same values, in
\* any order, at every depth
RECURSIVE SameMapping(_, _)
SameMapping(a, b) ==
    IF IsNum(a) \/ IsNum(b) THEN IsNum(a) /\ IsNum(b) /\ a.num = b.num
    ELSE /\ Len(a.items) = Len(b.items)
         /\ \A i \in 1..Len(a.items) :
               \E j \in 1..Len(b.items) :
                   /\ b.items[j].k = a.items[i].k
                   /\ SameMapping(a.items[i].v, b.items[j].v)

\* C14: the key hash_params gave for a payload is the key it gives for every
\* payload with the same keys and values in another order, at any depth;
\* computing it takes no step on the table, the connection or the lock.
C14_FingerprintDeterministic ==
    /\ [](\A t \in Threads :
            (Cached(t) \/ frame[t].op = "insert")
            => \A q \in JsonPayloads \cup Payloads :
                  SameMapping(frame[t].kwargs, q)
                  => frame[t].cache_key = hash_params(q))
    /\ [][\A t \in Threads :
            (frame[t].pc = "idle" /\ frame'[t].op \in {"create", "insert"})
            => UNCHANGED <<rows, closed, lock, lastPut>>]_vars

C14_Witness ==
    \E t \in Threads :
        /\ Cached(t) /\ frame[t].pc = "returned" /\ frame[t].attempts = 0
        /\ \E i \in 1..Len(frame[t].kwargs.items) : ~IsNum(frame[t].kwargs.items[i].v)
        /\ \E r \in rows :
              /\ r.key = frame[t].cache_key
              /\ r.response = frame[t].cached_response[1]
              /\ r.request_params # json_dumps(frame[t].kwargs, FALSE)
              /\ SameMapping(json_loads(r.request_params), frame[t].kwargs)

\* C15: the text a lookup returns for a key decodes to the very dict the last
\* insert for that key was given, keys in its order at every depth; a create()
\* answered from it returns the completion whose dump that dict is.
C15_RoundTrip ==
    [][\A t \in Threads :
          (Executes(t, "get_exec") /\ frame[t].cache_key \in DOMAIN lastPut)
          => LET put == lastPut[frame[t].cache_key]
                 f == frame'[t]
             IN  /\ f.cached_response # None
                 /\ json_loads(f.cached_response[1]) = put
                 /\ (frame[t].op = "create" /\ Validates(put))
                       => /\ f.pc = "returned"
                          /\ f.ret = model_validate(put)
                          /\ (put = model_dump(f.ret) \/ put \notin {model_dump(r) : r \in Responses})]_vars

C15_Witness ==
    \E t \in Threads :
        /\ frame[t].op = "get" /\ frame[t].pc = "returned"
        /\ frame[t].cached_response # None
        /\ json_loads(frame[t].cached_response[1]) \in JsonDicts
        /\ \E i \in 1..Len(json_loads(frame[t].cached_response[1]).items) :
              ~IsNum(json_loads(frame[t].cached_response[1]).items[i].v)

\* thread t's step ends a `with self.lock:` block
LeavesBlock(t) == frame[t].pc \in ExecPcs /\ frame'[t].pc \notin ExecPcs

\* C16: the step that ends a `with self.lock:` block of get, insert, clear,
\* close or the schema init leaves the lock free, whether the block returned or
\* raised on the closed connection; so the lock is held only by a thread inside
\* such a block, and a thread waiting for it when no thread is inside one, a
\* failed operation behind it or not, can take it.
C16_LockReleasedOnEveryExit ==
    /\ [][\A t \in Threads :
            LeavesBlock(t)
            => /\ lock' = {}
               /\ frame'[t].pc \in {"returned", "raised", "calling"}]_vars
    /\ [](\A t \in Threads : t \in lock => frame[t].pc \in ExecPcs)
    /\ [](\A u \in Threads :
            (frame[u].pc \in WaitPcs /\ \A t \in Threads : frame[t].pc \notin ExecPcs)
            => LockFree(lock))

\* one thread's operation raised on the closed connection and the other has
\* taken the lock since
C16_Witness ==
    \E t, u \in Threads :
        /\ t # u
        /\ frame[t].pc = "raised" /\ frame[t].e = ClosedError
        /\ frame[u].pc \in ExecPcs /\ lock = {u}

\* C17: a thread whose create() has its remote call in flight or sleeps between
\* two attempts does not hold the lock: the lock is free or held by another
\* thread inside its own `with self.lock:` block, whose step is not blocked.
C17_RetryHoldsNoLock ==
    /\ [](\A t \in Threads :
            frame[t].pc \in {"calling", "sleep"}
            => /\ t \notin lock
               /\ \A u \in Threads \ {t} :
                     /\ frame[u].pc \in WaitPcs => LockFree(lock)
                     /\ frame[u].pc \in ExecPcs => lock = {u})
    /\ [][\A t, u \in Threads :
            (t # u /\ frame[t].pc \in {"calling", "sleep"} /\ LeavesBlock(u))
            => /\ frame'[t] = frame[t]
               /\ (~closed => frame'[u].pc # "raised" \/ frame'[u].e = ValidationError)]_vars

\* one thread is in the backoff wait of a second or later attempt while the
\* other runs the statement of its get or insert
C17_Witness ==
    \E t, u \in Threads :
        /\ t # u
        /\ Cached(t) /\ frame[t].pc = "sleep" /\ frame[t].attempts >= 2
        /\ frame[u].pc \in {"get_exec", "insert_exec"} /\ lock = {u}
        /\ frame[u].cache_key = frame[t].cache_key

\* C18: a create() with a provider changes the table in one step only, the
\* insert that follows a remote call of its own that returned a completion, and
\* at most once; a create() that raised made no insert, so no step of it
\* changed the table.
C18_FailedCallLeavesStore ==
    /\ [][\A t \in Threads :
            (Cached(t) /\ frame'[t] # frame[t] /\ frame'[t].pc # "idle")
            => IF rows' # rows \/ lastPut' # lastPut \/ frame'[t].puts # frame[t].puts
               THEN /\ frame[t].pc = "insert_exec" /\ frame'[t].pc = "returned"
                    /\ frame[t].puts = 0 /\ frame'[t].puts = 1
                    /\ frame[t].response \in Responses /\ frame[t].attempts >= 1
                    /\ frame[t].dump = model_dump(frame[t].response)
                    /\ rows' = InsertRow(rows, frame[t])
               ELSE rows' = rows]_vars
    /\ [](\A t \in Threads :
            Cached(t)
            => /\ frame[t].puts <= 1
               /\ frame[t].pc = "raised" => frame[t].puts = 0
               /\ frame[t].puts = 1 => frame[t].pc = "returned")

\* a create() gave up on a transient error past its deadline, after a retry,
\* with rows in the table
C18_Witness ==
    \E t \in Threads :
        /\ Cached(t) /\ frame[t].pc = "raised" /\ frame[t].e \in TransientErrors
        /\ frame[t].attempts >= 2 /\ DeadlinePassed(frame[t])
        /\ rows # {} /\ frame[t].puts = 0

\* C19: a create() whose lookup finds a row makes no remote call and no
\* insert: the lookup step leaves every row of the table as it was, the call is
\* over with it, and it has written nothing.  (created_at is set by the INSERT
\* statement alone, which such a call never issues.)
C19_HitDoesNotWrite ==
    /\ [][\A t \in Threads :
            (Cached(t) /\ Executes(t, "get_exec")
               /\ Truthy(SelectResponse(rows, frame[t].cache_key)))
            => /\ rows' = rows /\ lastPut' = lastPut
               /\ frame'[t].puts = 0 /\ frame'[t].attempts = 0
               /\ frame'[t].pc \in {"returned", "raised"}]_vars
    /\ [](\A t \in Threads :
            (Cached(t) /\ Truthy(frame[t].cached_response))
            => /\ frame[t].puts = 0 /\ frame[t].attempts = 0
               /\ frame[t].pc \in {"returned", "raised"})

\* a hit on a table with a second row
C19_Witness ==
    \E t \in Threads :
        /\ Cached(t) /\ frame[t].pc = "returned" /\ Truthy(frame[t].cached_response)
        /\ \E r \in rows : r.key = frame[t].cache_key /\ r.response = frame[t].cached_response[1]
        /\ \E r \in rows : r.key # frame[t].cache_key

\* C20: the deadline is read only after the remote call raised: a miss leads to
\* a first remote call whatever the timeout, a remote call that returns leads
\* to the insert and the return of its completion however late it is, and the
\* only exceptions a create() with a provider raises out of its loop are the
\* ones the remote call raised.
C20_DeadlineKeepsSuccess ==
    /\ [][\A t \in Threads :
            (Cached(t) /\ Executes(t, "get_exec")
               /\ ~Truthy(SelectResponse(rows, frame[t].cache_key)))
            => frame'[t].pc = "calling" /\ frame'[t].attempts = 1]_vars
    /\ [][\A t \in Threads :
            (Cached(t) /\ frame[t].pc = "calling" /\ frame'[t].pc = "raised")
            => /\ frame'[t].e \in RemoteErrors
               /\ frame'[t].e \in TransientErrors => DeadlinePassed(frame'[t])]_vars
    /\ [][\A t \in Threads :
            (Cached(t) /\ Executes(t, "insert_exec"))
            => /\ frame'[t].pc = "returned"
               /\ frame'[t].ret = frame[t].response
               /\ PutRow(t) \in rows']_vars
    /\ [](\A t \in Threads :
            (Cached(t) /\ frame[t].pc \in {"insert_wait", "insert_exec"})
            => frame[t].response \in Responses)

\* a create() with timeout 0 returned and cached a completion that came after
\* the deadline
C20_Witness ==
    \E t \in Threads :
        /\ Cached(t) /\ frame[t].pc = "returned" /\ frame[t].puts = 1
        /\ frame[t].timeout = Some(0) /\ DeadlinePassed(frame[t])
        /\ frame[t].ret = frame[t].response
        /\ \E r \in rows : r.key = frame[t].cache_key
                           /\ r.response = json_dumps(model_dump(frame[t].ret), FALSE)

====
